---- MODULE Spec2Model ----
(***************************************************************************)
(* The BBBC image-dataset loaders of deepchem/molnet/load_function/        *)
(* bbbc_datasets.py: load_bbbc001, load_bbbc002, load_bbbc004 and the      *)
(* create_dataset methods of their loader classes, over a data_dir (raw    *)
(* files), a save_dir (cached datasets) and a remote server.               *)
(*                                                                         *)
(* Python values are modelled as follows.  A float overlap probability is  *)
(* the string of its literal ("0.15"); a URL is a record of its directory  *)
(* and its last path component; a file of data_dir is its name; a label    *)
(* table is the sequence of its rows <<a, b>> (the two annotator columns), *)
(* or Malformed when pandas cannot read the two columns from it.           *)
(***************************************************************************)
EXTENDS Integers, Sequences, FiniteSets, TLC

(* ------------------------------ bounds --------------------------------- *)

\* Rows of a label table, and the largest annotator count in one.
MaxRows == 2
MaxCount == 2

(* ------------------------- module constants ---------------------------- *)

BBBC1_IMAGE_URL ==
    [dir |-> "https://data.broadinstitute.org/bbbc/BBBC001/",
     name |-> "BBBC001_v1_images_tif.zip"]
BBBC1_LABEL_URL ==
    [dir |-> "https://data.broadinstitute.org/bbbc/BBBC001/",
     name |-> "BBBC001_v1_counts.txt"]
BBBC2_IMAGE_URL ==
    [dir |-> "https://data.broadinstitute.org/bbbc/BBBC002/",
     name |-> "BBBC002_v1_images.zip"]
BBBC2_LABEL_URL ==
    [dir |-> "https://data.broadinstitute.org/bbbc/BBBC002/",
     name |-> "BBBC002_v1_counts.txt"]
BBBC4_IMAGE_URL ==
    [dir |-> "https://data.broadinstitute.org/bbbc/BBBC004/",
     name |-> "BBBC004_v1_000_images.zip"]
BBBC4_FOREGROUND_URL ==
    [dir |-> "https://data.broadinstitute.org/bbbc/BBBC004/",
     name |-> "BBBC004_v1_000_foreground.zip"]

\* np.full(20, 300, dtype=int): the sample count and the label of BBBC004.
NumSamples == 20
CellCount == 300

\* overlap_dict of both BBBC004 loader constructors.
overlap_dict ==
    ("0.0" :> "00") @@ ("0.15" :> "15") @@ ("0.3" :> "30") @@
    ("0.45" :> "45") @@ ("0.6" :> "60")

\* f"BBBC004_v1_0{self.overlap_probability}_images.zip"
ImagesZip(code) ==
    CASE code = "00" -> "BBBC004_v1_000_images.zip"
      [] code = "15" -> "BBBC004_v1_015_images.zip"
      [] code = "30" -> "BBBC004_v1_030_images.zip"
      [] code = "45" -> "BBBC004_v1_045_images.zip"
      [] code = "60" -> "BBBC004_v1_060_images.zip"

\* f"BBBC004_v1_0{self.overlap_probability}_foreground.zip"
ForegroundZip(code) ==
    CASE code = "00" -> "BBBC004_v1_000_foreground.zip"
      [] code = "15" -> "BBBC004_v1_015_foreground.zip"
      [] code = "30" -> "BBBC004_v1_030_foreground.zip"
      [] code = "45" -> "BBBC004_v1_045_foreground.zip"
      [] code = "60" -> "BBBC004_v1_060_foreground.zip"

(* ------------------------------ values --------------------------------- *)

NoUrl == [dir |-> "", name |-> ""]
NoLabels == <<"none">>

\* A label file without its second annotator column: reading the column raises.
Malformed == << <<0>> >>

\* The integers a column of a label file holds: counts, and -1 because the
\* parser takes any integer and int() of a negative mean rounds toward zero.
Counts == {-1} \cup 0..MaxCount
Rows == Counts \X Counts

\* The well-formed label tables of at most n rows.
TablesUpTo(n) == UNION {[1..k -> Rows] : k \in 0..n}
Tables == TablesUpTo(MaxRows) \cup {Malformed}

NoDataset == [kind |-> "none", images |-> "", labels |-> <<>>, masks |-> "",
              sorting |-> FALSE]

NoLoader == [cls |-> "none", overlap_probability |-> ""]

\* The loader instances create_dataset runs on.
CountLoaders == {[cls |-> c, overlap_probability |-> ""] :
                    c \in {"_BBBC001Loader", "_BBBC002Loader"}}
BBBC004Loaders == {[cls |-> c, overlap_probability |-> overlap_dict[p]] :
                    c \in {"_BBBC004_Loader", "_BBBC004_Segmentation_Loader"},
                    p \in DOMAIN overlap_dict}
Loaders == CountLoaders \cup BBBC004Loaders

(* --------------------------- label aggregation ------------------------- *)

\* Integer division that truncates toward zero: the unsafe cast of a float
\* quotient to int that np.mean(..., dtype=int) ends with.
TruncDiv(n, d) == IF n >= 0 THEN n \div d ELSE -((-n) \div d)

\* np.mean([col1, col2], axis=0, dtype=int) of one row: the columns are summed
\* as ints, the sum is divided by the number of columns and cast to int.
\* (The same with the mean rounded to the nearest integer instead.)
MeanInt_rounded(row) == (row[1] + row[2] + 1) \div 2
MeanInt(row) == TruncDiv(row[1] + row[2], 2)

\* labels = np.mean([labels_table[c1], labels_table[c2]], axis=0, dtype=int)
np_mean(t) == [i \in 1..Len(t) |-> MeanInt(t[i])]

\* labels = np.full(20, 300, dtype=int)
np_full == [i \in 1..NumSamples |-> CellCount]

(* ------------------------ create_dataset, per class -------------------- *)

\* The statements of a create_dataset body, in order.
\*   fetch: if not os.path.exists(file): download_url(url, dest_dir=data_dir)
\*   read_mean: pd.read_csv(file) and np.mean of its two annotator columns
\*   full: labels = np.full(20, 300, dtype=int)
\*   build: ImageLoader(sorting).create_dataset(inputs=(file, labels or mask))
Fetch(file, url) ==
    [op |-> "fetch", file |-> file, url |-> url, mask |-> "", sorting |-> FALSE]
ReadMean(file) ==
    [op |-> "read_mean", file |-> file, url |-> NoUrl, mask |-> "",
     sorting |-> FALSE]
Full ==
    [op |-> "full", file |-> "", url |-> NoUrl, mask |-> "", sorting |-> FALSE]
Build(file, mask, sorting) ==
    [op |-> "build", file |-> file, url |-> NoUrl, mask |-> mask,
     sorting |-> sorting]

BBBC001Loader_create_dataset ==
    LET dataset_file == "BBBC001_v1_images_tif.zip"
        labels_file == "BBBC001_v1_counts.txt"
    IN  << Fetch(dataset_file, BBBC1_IMAGE_URL),
           Fetch(labels_file, BBBC1_LABEL_URL),
           ReadMean(labels_file),
           Build(dataset_file, "", TRUE) >>

BBBC002Loader_create_dataset ==
    LET dataset_file == "BBBC002_v1_images.zip"
        labels_file == "BBBC002_v1_counts.txt"
    IN  << Fetch(dataset_file, BBBC2_IMAGE_URL),
           Fetch(labels_file, BBBC2_LABEL_URL),
           ReadMean(labels_file),
           Build(dataset_file, "", TRUE) >>

BBBC004_Segmentation_Loader_create_dataset(code) ==
    LET dataset_file == ImagesZip(code)
        foreground_file == ForegroundZip(code)
    IN  << Fetch(dataset_file, BBBC4_IMAGE_URL),
           Fetch(foreground_file, BBBC4_FOREGROUND_URL),
           Build(dataset_file, foreground_file, FALSE) >>

BBBC004_Loader_create_dataset(code) ==
    LET dataset_file == ImagesZip(code)
    IN  << Fetch(dataset_file, BBBC4_IMAGE_URL),
           Full,
           Build(dataset_file, "", FALSE) >>

\* self.create_dataset, by the class of self.
create_dataset(loader) ==
    CASE loader.cls = "_BBBC001Loader" -> BBBC001Loader_create_dataset
      [] loader.cls = "_BBBC002Loader" -> BBBC002Loader_create_dataset
      [] loader.cls = "_BBBC004_Segmentation_Loader" ->
            BBBC004_Segmentation_Loader_create_dataset(loader.overlap_probability)
      [] loader.cls = "_BBBC004_Loader" ->
            BBBC004_Loader_create_dataset(loader.overlap_probability)

(* ------------------------------ constructors --------------------------- *)

NoError == [exc |-> "", valid |-> {}, got |-> ""]
TypeError == [exc |-> "TypeError", valid |-> {}, got |-> ""]
\* f"Overlap_probability must be one of {overlap_dict.keys()}, got {p}"
ValueError(valid, got) == [exc |-> "ValueError", valid |-> valid, got |-> got]
IOError == [exc |-> "IOError", valid |-> {}, got |-> ""]
ParseError == [exc |-> "ParseError", valid |-> {}, got |-> ""]

\* The positional arguments every load function passes to its loader class:
\* (featurizer, splitter, transformers, TASKS, data_dir, save_dir).
LoaderArgs ==
    <<"featurizer", "splitter", "transformers", "tasks", "data_dir", "save_dir">>

\* _MolnetLoader.__init__(self, featurizer, splitter, transformer_generators,
\* tasks, data_dir, save_dir, **kwargs): it stores its six arguments.
MolnetLoader_init(cls, code, posargs) ==
    IF Len(posargs) = Len(LoaderArgs)
    THEN [error |-> NoError, loader |-> [cls |-> cls, overlap_probability |-> code]]
    ELSE [error |-> TypeError, loader |-> NoLoader]

\* __init__(self, overlap_probability: float = 0.0, **kwargs) of
\* _BBBC004_Loader and _BBBC004_Segmentation_Loader, called with the
\* positional arguments posargs and the keyword arguments kwargs.  Binding
\* comes first: the signature takes one positional argument after self.
BBBC004_init(cls, posargs, kwargs) ==
    IF Len(posargs) > 1
    THEN [error |-> TypeError, loader |-> NoLoader]
    ELSE LET overlap_probability ==
                 IF Len(posargs) = 1 THEN posargs[1]
                 ELSE IF "overlap_probability" \in DOMAIN kwargs
                      THEN kwargs["overlap_probability"]
                      ELSE "0.0"
         IN  IF overlap_probability \notin DOMAIN overlap_dict
             THEN [error |-> ValueError(DOMAIN overlap_dict, overlap_probability),
                   loader |-> NoLoader]
             ELSE \* super().__init__(): no argument is passed on
                  MolnetLoader_init(cls, overlap_dict[overlap_probability], <<>>)

(* ------------------------------ load functions ------------------------ *)

\* The loader a load function constructs.  load_bbbc004 chooses the class by
\* load_segmentation_mask and passes the same six positional arguments as
\* load_bbbc001 and load_bbbc002; its overlap_probability is not passed on.
load_bbbc001_loader == MolnetLoader_init("_BBBC001Loader", "", LoaderArgs)
load_bbbc002_loader == MolnetLoader_init("_BBBC002Loader", "", LoaderArgs)
load_bbbc004_loader(load_segmentation_mask) ==
    IF load_segmentation_mask
    THEN BBBC004_init("_BBBC004_Segmentation_Loader", LoaderArgs, <<>>)
    ELSE BBBC004_init("_BBBC004_Loader", LoaderArgs, <<>>)

\* loader.load_dataset(name, reload): the name each load function passes.
DatasetName(fn) ==
    CASE fn = "load_bbbc001" -> "bbbc001"
      [] fn = "load_bbbc002" -> "bbbc002"
      [] fn = "load_bbbc004" -> "bbbc004"

DatasetNames == {"bbbc001", "bbbc002", "bbbc004"}

\* The overlap probabilities a caller passes: the five of overlap_dict and
\* two that are not in it.
Probabilities == DOMAIN overlap_dict \cup {"0.5", "1.0"}

NoCall == [fn |-> "", overlap_probability |-> "",
           load_segmentation_mask |-> FALSE, reload |-> FALSE]

Calls ==
    {[fn |-> f, overlap_probability |-> "", load_segmentation_mask |-> FALSE,
      reload |-> r] : f \in {"load_bbbc001", "load_bbbc002"}, r \in BOOLEAN}
    \cup
    {[fn |-> "load_bbbc004", overlap_probability |-> p,
      load_segmentation_mask |-> m, reload |-> r] :
        p \in Probabilities, m \in BOOLEAN, r \in BOOLEAN}

(* -------------------------------- state -------------------------------- *)

VARIABLES
    table,      \* the label table the server holds (and data_dir, once fetched)
    dataDir,    \* the names of the files in data_dir
    saveDir,    \* save_dir: the cached dataset of each dataset name
    self,       \* the loader instance
    call,       \* the load function running and its arguments
    pc,         \* where the call is
    stmt,       \* the statement of create_dataset to run next (0: not entered)
    labels,     \* create_dataset's local labels
    dataset,    \* the dataset create_dataset built
    result,     \* what the call returns or raises
    io,         \* the I/O the call has done so far, in order
    prev,       \* the preceding call, when it had the same arguments
    fetched     \* the loaders for which a create_dataset ran with no failed download

vars == <<table, dataDir, saveDir, self, call, pc, stmt, labels, dataset,
          result, io, prev, fetched>>

NoResult == [error |-> NoError, datasets |-> NoDataset]
NoPrev == [call |-> NoCall, result |-> NoResult]

Event(ev, file) == [ev |-> ev, file |-> file]
Did(ev) == \E i \in 1..Len(io) : io[i].ev = ev

Stmt == create_dataset(self)[stmt]

InitCommon ==
    /\ dataDir = {}
    /\ saveDir = [n \in DatasetNames |-> NoDataset]
    /\ call = NoCall
    /\ pc = "idle"
    /\ stmt = 0
    /\ labels = NoLabels
    /\ dataset = NoDataset
    /\ result = NoResult
    /\ io = <<>>
    /\ prev = NoPrev
    /\ fetched = {}

\* A process that calls the load functions: no loader exists yet.  The label
\* tables of the server have at most one row here.
Init ==
    /\ table \in TablesUpTo(1) \cup {Malformed}
    /\ self = NoLoader
    /\ InitCommon

\* A loader instance whose create_dataset is called directly.
InitCreate ==
    /\ self \in Loaders
    /\ table \in (IF self \in CountLoaders THEN Tables ELSE {<<>>})
    /\ InitCommon

(* ------------------------- collaborators ------------------------------- *)

\* dc.utils.data_utils.download_url(url, dest_dir): the file it writes into
\* dest_dir is named by the last path component of the URL.
download_url(url) == url.name

\* dc.data.ImageLoader(sorting).create_dataset(inputs=(file, labels or mask),
\* in_memory=False): the images of file, each with its label or its mask.
ImageLoader_create_dataset(s, lbls) ==
    [kind |-> IF s.mask = "" THEN "count" ELSE "mask",
     images |-> s.file,
     labels |-> IF s.mask = "" THEN lbls ELSE <<>>,
     masks |-> s.mask,
     sorting |-> s.sorting]

Raise(e) == [error |-> e, datasets |-> NoDataset]
Return(d) == [error |-> NoError, datasets |-> d]

(* ------------------------- the load functions -------------------------- *)

\* load_bbbc001(...), load_bbbc002(...) or load_bbbc004(...) is called.
Call(c) ==
    /\ pc = "idle"
    /\ pc' = "construct"
    /\ call' = c
    /\ prev' = IF prev.call = c THEN prev ELSE NoPrev
    /\ UNCHANGED <<table, dataDir, saveDir, self, stmt, labels, dataset,
                   result, io, fetched>>

\* loader = <class>(featurizer, splitter, transformers, TASKS, data_dir,
\* save_dir, **kwargs); an exception of the constructor leaves the function.
Construct ==
    /\ pc = "construct"
    /\ LET made == CASE call.fn = "load_bbbc001" -> load_bbbc001_loader
                     [] call.fn = "load_bbbc002" -> load_bbbc002_loader
                     [] call.fn = "load_bbbc004" ->
                            load_bbbc004_loader(call.load_segmentation_mask)
       IN  IF made.error = NoError
           THEN /\ self' = made.loader
                /\ pc' = "load_dataset"
                /\ UNCHANGED result
           ELSE /\ self' = NoLoader
                /\ pc' = "raise"
                /\ result' = Raise(made.error)
    /\ UNCHANGED <<table, dataDir, saveDir, call, stmt, labels, dataset, io,
                   prev, fetched>>

\* return loader.load_dataset(name, reload), first half: with reload, a
\* cached dataset under save_dir is returned as it is; otherwise
\* self.create_dataset() runs.
load_dataset ==
    /\ pc = "load_dataset"
    /\ LET name == DatasetName(call.fn)
       IN  IF call.reload /\ saveDir[name] # NoDataset
           THEN /\ result' = Return(saveDir[name])
                /\ io' = Append(io, Event("cache_read", name))
                /\ pc' = "return"
                /\ UNCHANGED stmt
           ELSE /\ pc' = "create_dataset"
                /\ stmt' = 1
                /\ UNCHANGED <<result, io>>
    /\ UNCHANGED <<table, dataDir, saveDir, self, call, labels, dataset, prev,
                   fetched>>

\* load_dataset, second half: the dataset create_dataset returned is split
\* and transformed, saved under save_dir when reload is set, and returned.
split_and_save ==
    /\ pc = "split_save"
    /\ LET name == DatasetName(call.fn)
       IN  IF call.reload
           THEN /\ saveDir' = [saveDir EXCEPT ![name] = dataset]
                /\ io' = Append(io, Event("cache_write", name))
           ELSE UNCHANGED <<saveDir, io>>
    /\ result' = Return(dataset)
    /\ pc' = "return"
    /\ UNCHANGED <<table, dataDir, self, call, stmt, labels, dataset, prev,
                   fetched>>

(* ----------------------------- create_dataset -------------------------- *)

\* loader.create_dataset() is called on a loader instance directly.
CallCreateDataset ==
    /\ pc = "idle"
    /\ call = NoCall
    /\ self # NoLoader
    /\ pc' = "create_dataset"
    /\ stmt' = 1
    /\ UNCHANGED <<table, dataDir, saveDir, self, call, labels, dataset,
                   result, io, prev, fetched>>

\* if not os.path.exists(file): the file is there, nothing is downloaded.
FetchPresent ==
    /\ pc = "create_dataset"
    /\ Stmt.op = "fetch"
    /\ Stmt.file \in dataDir
    /\ io' = Append(io, Event("exists", Stmt.file))
    /\ stmt' = stmt + 1
    /\ UNCHANGED <<table, dataDir, saveDir, self, call, pc, labels, dataset,
                   result, prev, fetched>>

\* if not os.path.exists(file): download_url(url, dest_dir), which succeeds.
FetchDownloads ==
    /\ pc = "create_dataset"
    /\ Stmt.op = "fetch"
    /\ Stmt.file \notin dataDir
    /\ dataDir' = dataDir \cup {download_url(Stmt.url)}
    /\ io' = io \o <<Event("exists", Stmt.file),
                     Event("download", Stmt.url.name)>>
    /\ stmt' = stmt + 1
    /\ UNCHANGED <<table, saveDir, self, call, pc, labels, dataset, result,
                   prev, fetched>>

\* A failed download that is swallowed: the body goes on.
FetchFails_swallowed ==
    /\ pc = "create_dataset"
    /\ Stmt.op = "fetch"
    /\ Stmt.file \notin dataDir
    /\ io' = io \o <<Event("exists", Stmt.file),
                     Event("download_failed", Stmt.url.name)>>
    /\ stmt' = stmt + 1
    /\ UNCHANGED <<table, dataDir, saveDir, self, call, pc, labels, dataset,
                   result, prev, fetched>>

\* if not os.path.exists(file): download_url(url, dest_dir), which raises;
\* nothing catches the exception.
FetchFails ==
    /\ pc = "create_dataset"
    /\ Stmt.op = "fetch"
    /\ Stmt.file \notin dataDir
    /\ io' = io \o <<Event("exists", Stmt.file),
                     Event("download_failed", Stmt.url.name)>>
    /\ pc' = "raise"
    /\ result' = Raise(IOError)
    /\ UNCHANGED <<table, dataDir, saveDir, self, call, stmt, labels, dataset,
                   prev, fetched>>

\* labels = np.mean([two columns of pd.read_csv(labels_file)], axis=0,
\* dtype=int), or labels = np.full(20, 300, dtype=int).
ComputeLabels ==
    /\ pc = "create_dataset"
    /\ Stmt.op \in {"read_mean", "full"}
    /\ IF Stmt.op = "full"
       THEN /\ labels' = np_full
            /\ stmt' = stmt + 1
            /\ UNCHANGED <<pc, result, io>>
       ELSE IF Stmt.file \notin dataDir
       THEN /\ io' = Append(io, Event("read_failed", Stmt.file))
            /\ pc' = "raise"
            /\ result' = Raise(IOError)
            /\ UNCHANGED <<labels, stmt>>
       ELSE IF table = Malformed
       THEN /\ io' = Append(io, Event("parse_failed", Stmt.file))
            /\ pc' = "raise"
            /\ result' = Raise(ParseError)
            /\ UNCHANGED <<labels, stmt>>
       ELSE /\ io' = Append(io, Event("read", Stmt.file))
            /\ labels' = np_mean(table)
            /\ stmt' = stmt + 1
            /\ UNCHANGED <<pc, result>>
    /\ UNCHANGED <<table, dataDir, saveDir, self, call, dataset, prev, fetched>>

\* loader = dc.data.ImageLoader(...); return loader.create_dataset(...): the
\* input files are read from data_dir; a missing one raises.
BuildDataset ==
    /\ pc = "create_dataset"
    /\ Stmt.op = "build"
    /\ LET inputs == {Stmt.file} \cup (IF Stmt.mask = "" THEN {} ELSE {Stmt.mask})
           built == ImageLoader_create_dataset(Stmt, labels)
       IN  IF inputs \subseteq dataDir
           THEN /\ io' = Append(io, Event("build", Stmt.file))
                /\ dataset' = built
                /\ IF call = NoCall
                   THEN pc' = "return" /\ result' = Return(built)
                   ELSE pc' = "split_save" /\ UNCHANGED result
           ELSE /\ io' = Append(io, Event("build_failed", Stmt.file))
                /\ pc' = "raise"
                /\ result' = Raise(IOError)
                /\ UNCHANGED dataset
    /\ UNCHANGED <<table, dataDir, saveDir, self, call, stmt, labels, prev,
                   fetched>>

\* The call returns or raises to its caller.
Finish ==
    /\ pc \in {"return", "raise"}
    /\ pc' = "idle"
    /\ prev' = [call |-> call, result |-> result]
    /\ fetched' = IF stmt >= 1 /\ ~Did("download_failed")
                  THEN fetched \cup {self} ELSE fetched
    /\ self' = IF call = NoCall THEN self ELSE NoLoader
    /\ call' = NoCall
    /\ stmt' = 0
    /\ labels' = NoLabels
    /\ dataset' = NoDataset
    /\ result' = NoResult
    /\ io' = <<>>
    /\ UNCHANGED <<table, dataDir, saveDir>>

Next ==
    \/ \E c \in Calls : Call(c)
    \/ Construct
    \/ load_dataset
    \/ FetchPresent
    \/ FetchDownloads
    \/ FetchFails
    \/ ComputeLabels
    \/ BuildDataset
    \/ split_and_save
    \/ Finish

NextCreate ==
    \/ CallCreateDataset
    \/ FetchPresent
    \/ FetchDownloads
    \/ FetchFails
    \/ ComputeLabels
    \/ BuildDataset
    \/ Finish

Spec == Init /\ [][Next]_vars
SpecCreate == InitCreate /\ [][NextCreate]_vars

TypeOK == pc \in {"idle", "construct", "load_dataset", "create_dataset",
                  "split_save", "return", "raise"}

(* ------------------------------- properties ---------------------------- *)

Valid(p) == p \in DOMAIN overlap_dict
Finished == pc \in {"return", "raise"}
Constructed == pc \notin {"idle", "construct"}
Downloads == {"download", "download_failed"}
Failures == {"download_failed", "parse_failed"}

\* C1: load_bbbc004 constructs its loader (of either mode) successfully for
\* every overlap_probability of overlap_dict, and for every other value the
\* construction raises the ValueError that names the valid set.
C1_ConstructionValidatesOverlap ==
    (call.fn = "load_bbbc004" /\ Constructed) =>
        IF Valid(call.overlap_probability)
        THEN result.error = NoError /\ self \in BBBC004Loaders
        ELSE result.error.exc = "ValueError"
             /\ result.error.valid = DOMAIN overlap_dict

\* C2: a load_bbbc004 call with an overlap_probability outside overlap_dict
\* ends in the validation error, whose message holds the offending value and
\* the valid set, and the call has done no I/O at all.
C2_InvalidOverlapFailsBeforeIO ==
    (call.fn = "load_bbbc004" /\ ~Valid(call.overlap_probability)
        /\ Constructed) =>
        /\ pc = "raise"
        /\ result.error = ValueError(DOMAIN overlap_dict, call.overlap_probability)
        /\ io = <<>>

\* C3: the dataset create_dataset of _BBBC001Loader and _BBBC002Loader builds
\* has one label per row of the label table, in row order, and label i is the
\* mean of row i's two annotator counts truncated toward zero.
C3_LabelsAreTruncatedMeans ==
    (self \in CountLoaders /\ dataset # NoDataset) =>
        /\ Len(dataset.labels) = Len(table)
        /\ \A i \in 1..Len(table) :
              LET sum == table[i][1] + table[i][2]
                  l == dataset.labels[i]
              IN  IF sum >= 0
                  THEN 2 * l <= sum /\ sum <= 2 * l + 1
                  ELSE 2 * l >= sum /\ sum >= 2 * l - 1

\* C3's case: two rows, one with a negative and one with a positive odd sum,
\* have been aggregated into a built dataset.
C3_Witness ==
    /\ self \in CountLoaders
    /\ dataset # NoDataset
    /\ table = << <<-1, 0>>, <<1, 2>> >>
    /\ dataset.labels = <<0, 1>>

\* C4: when a load function is called twice with reload=True and the same
\* arguments, and neither call meets a failing download or an unreadable label
\* file, the second call returns the datasets the first call returned and
\* neither downloads nor reads a raw file.
C4_SecondReloadCallHitsCache ==
    (Finished /\ call # NoCall /\ call.reload /\ prev.call = call
        /\ prev.result.error \notin {IOError, ParseError}
        /\ result.error \notin {IOError, ParseError}) =>
        /\ result.error = NoError
        /\ result.datasets # NoDataset
        /\ result = prev.result
        /\ \A i \in 1..Len(io) : io[i].ev \in {"cache_read"}

\* C5: a load_bbbc004 call with a valid overlap_probability returns samples
\* of the label shape of its mode, masks with load_segmentation_mask and
\* scalar counts without, whatever calls came before it.
C5_ModesKeptApart ==
    (Finished /\ call.fn = "load_bbbc004" /\ Valid(call.overlap_probability)) =>
        /\ result.error = NoError
        /\ result.datasets.kind =
              (IF call.load_segmentation_mask THEN "mask" ELSE "count")

\* C6: a count-mode load_bbbc004 call with a valid overlap_probability
\* returns 20 samples, each labelled 300.
C6_CountModeTwentySamplesOf300 ==
    (Finished /\ call.fn = "load_bbbc004" /\ ~call.load_segmentation_mask
        /\ Valid(call.overlap_probability)) =>
        /\ result.error = NoError
        /\ Len(result.datasets.labels) = NumSamples
        /\ \A i \in 1..Len(result.datasets.labels) :
              result.datasets.labels[i] = CellCount

\* The files a create_dataset body checks for in data_dir.
FilesChecked(loader) ==
    {create_dataset(loader)[i].file :
        i \in {j \in 1..Len(create_dataset(loader)) :
                  create_dataset(loader)[j].op = "fetch"}}

\* C7: once a create_dataset of a loader has run with every download
\* succeeding, the files it checks for are in data_dir and no later
\* create_dataset of that loader invokes download_url.
C7_RawFilesFetchedOnce ==
    (self \in fetched) =>
        /\ FilesChecked(self) \subseteq dataDir
        /\ \A i \in 1..Len(io) : io[i].ev \notin Downloads

\* C8: when a download or the parse of the label file fails during a load,
\* the failing step is the last thing the load does (no retry, no dataset
\* built after it), the error is raised to the caller and no dataset is
\* returned.
C8_NoPartialResult ==
    \A i \in 1..Len(io) :
        io[i].ev \in Failures =>
            /\ i = Len(io)
            /\ pc = "raise"
            /\ result.error \in {IOError, ParseError}
            /\ result.datasets = NoDataset
            /\ dataset = NoDataset

\* C8's case: one raw file arrived, the download of the next one failed and
\* the load is raising.
C8_Witness ==
    /\ call.fn \in {"load_bbbc001", "load_bbbc002"}
    /\ pc = "raise"
    /\ Did("download")
    /\ Did("download_failed")
    /\ dataDir # {}

\* C10: the loader load_bbbc004 constructs for a valid overlap_probability p
\* has the overlap code of p, and so do the files its create_dataset names.
C10_OverlapArgumentHonoured ==
    (call.fn = "load_bbbc004" /\ Valid(call.overlap_probability)
        /\ Constructed) =>
        /\ self \in BBBC004Loaders
        /\ self.overlap_probability = overlap_dict[call.overlap_probability]
        /\ create_dataset(self)[1].file =
              ImagesZip(overlap_dict[call.overlap_probability])

====
